---- MODULE Spec2Model ----
(***************************************************************************)
(* Q-CapsNets: the staged bit-width search of qcapsnets() in               *)
(* src/q_capsnets.py, as a state machine.  One action is one step of the   *)
(* function between two calls of the accuracy oracle (quantized_test).     *)
(*                                                                         *)
(* Accuracies are exact rationals on a grid: one percent is Ticks ticks,   *)
(* the oracle returns whole percents, and every division the function      *)
(* makes is exact on that grid (DivisionsExact).                           *)
(***************************************************************************)
EXTENDS Integers, Sequences, FiniteSets, TLC

\* ---------------------------------------------------------------- bounds
NLayers == 2
MaxWeightBits == 40
TabPeriod == 3
MaxCalls == 8

\* ------------------------------------------------------ program constants
StartBits == 32
SecondBits == 16
FineFloor == 3
Step1Percent == 5
Step3aPercent == 55
NumSqnrGroups == 4
FullPrecisionBits == 32

Ticks == 100 * 120
Unbound == 0 - 1

Layers == 1..NLayers

\* ------------------------------------------------------------ list helpers
RECURSIVE SumSeq(_)
SumSeq(s) == IF Len(s) = 0 THEN 0 ELSE Head(s) + SumSeq(Tail(s))

Uniform(n, b) == [i \in 1..n |-> b]

Last(s) == s[Len(s)]

Abs(x) == IF x < 0 THEN 0 - x ELSE x

Reverse(s) == [i \in 1..Len(s) |-> s[Len(s) + 1 - i]]

\* next(k for k, val in enumerate(s) if val), zero-based
FirstTrue(s) == (CHOOSE k \in 1..Len(s) : s[k] /\ \A j \in 1..(k - 1) : ~s[j]) - 1

\* list.sort(key=sqnr, reverse=...) is stable: equal keys keep their order
Before(sq, descending, j, i) ==
    \/ (IF descending THEN sq[j] > sq[i] ELSE sq[j] < sq[i])
    \/ (sq[j] = sq[i] /\ j < i)

SortedIndex(sq, descending) ==
    [p \in 1..Len(sq) |->
        CHOOSE i \in 1..Len(sq) :
            Cardinality({j \in 1..Len(sq) : Before(sq, descending, j, i)}) = p - 1]

\* sqnr_tuples: the layers by weight SQNR, highest first
SqnrTuples(sq) == SortedIndex(sq, TRUE)

\* act_sqnr_grouped_index: the activation layers by SQNR, lowest first,
\* in 4 groups when there are more than 4 of them, else one group each
ActSqnrGroupedIndex(sq) ==
    LET sorted == SortedIndex(sq, FALSE)
        n == Len(sq)
        per == n \div NumSqnrGroups
    IN  IF n > NumSqnrGroups
        THEN [g \in 1..NumSqnrGroups |->
                IF g < NumSqnrGroups
                THEN [k \in 1..per |-> sorted[(g - 1) * per + k]]
                ELSE [k \in 1..(n - (NumSqnrGroups - 1) * per) |->
                         sorted[(NumSqnrGroups - 1) * per + k]]]
        ELSE [g \in 1..n |-> <<sorted[g]>>]

\* ------------------------------------------------------------- the oracle
\* quantized_test is a deterministic function of the three bit vectors.
\* Two families of test doubles: a non-decreasing step function of the
\* total number of bits, and a periodic (non-monotone) function of it.
Score(w, a, d) == SumSeq(w) + SumSeq(a) + SumSeq(d)

Evaluate(o, w, a, d) ==
    IF o.kind = "step"
    THEN IF Score(w, a, d) >= o.thr THEN o.hi ELSE o.lo
    ELSE o.tab[(Score(w, a, d) % TabPeriod) + 1]

VARIABLES
    pc,
    \* inputs
    oracle, top_accuracy, accuracy_tolerance, memory_budget_bits,
    number_of_weights_inlayers, weight_sqnr, act_sqnr, dynamic_routing,
    \* STEP 1
    step1_bit_search, step1_bit_search_sat, step1_acc_list, step1_acc, step1_bits,
    step1_weight_bits, step1_act_bits, step1_dr_bits,
    \* STEP 2
    step2_weight_bits, step2_act_bits, step2_dr_bits, step2_acc, prev_step2_acc,
    model_memory_acc, model_memory_weight_bits, model_memory_act_bits,
    model_memory_dr_bits, branchB, l2, curr_mem,
    \* STEP 3A
    step3A_min_acc, step3a_accuracy_budget_per_step, step3a_weight_bits,
    step3a_act_bits, step3a_dr_bits,
    step3a_acc, step3a_acc_prev, start_bits, curr_bits, l3,
    \* STEP 4A
    step4a_weight_bits, step4a_act_bits, step4a_dr_bits, dr_quantization_bits, step4a_acc, step4a_acc_prev,
    step4a_min_acc, step4a_accuracy_budget_per_step, l4,
    \* what the call returned
    retval,
    \* history: oracle calls per phase, and the bits at the end of the raise phase
    oracle_calls, raise_end_weight_bits

inputs == <<oracle, top_accuracy, accuracy_tolerance, memory_budget_bits,
            number_of_weights_inlayers, weight_sqnr, act_sqnr, dynamic_routing>>
s1vars == <<step1_bit_search, step1_bit_search_sat, step1_acc_list, step1_acc, step1_bits>>
s1out == <<step1_weight_bits, step1_act_bits, step1_dr_bits>>
s2vars == <<step2_weight_bits, step2_act_bits, step2_dr_bits, step2_acc, prev_step2_acc,
            model_memory_acc, model_memory_weight_bits, model_memory_act_bits,
            model_memory_dr_bits, branchB, l2, curr_mem>>
s3vars == <<step3A_min_acc, step3a_accuracy_budget_per_step, step3a_weight_bits,
            step3a_act_bits, step3a_dr_bits, step3a_acc, step3a_acc_prev, start_bits, curr_bits, l3>>
s4vars == <<step4a_weight_bits, step4a_act_bits, step4a_dr_bits, dr_quantization_bits, step4a_acc, step4a_acc_prev,
            step4a_min_acc, step4a_accuracy_budget_per_step, l4>>
hist == <<oracle_calls, raise_end_weight_bits>>
vars == <<pc, inputs, s1vars, s1out, s2vars, s3vars, s4vars, retval, hist>>

\* ------------------------------------------- the accuracy floors (157-161)
minimum_accuracy == top_accuracy - (accuracy_tolerance * top_accuracy) \div 100
acc_reduction == top_accuracy - minimum_accuracy
step1_reduction == (Step1Percent * acc_reduction) \div 100
step1_min_acc == top_accuracy - step1_reduction

\* the layers that carry dynamic-routing bits, in layer order
NumDR == Cardinality({i \in Layers : dynamic_routing[i]})

\* step1_quantization_test(N): weights, activations and routing all at N bits
step1_quantization_test(N) ==
    Evaluate(oracle, Uniform(NLayers, N), Uniform(NLayers, N), Uniform(NumDR, N))

minimum_mem_required == SumSeq(number_of_weights_inlayers)
tot_memory_b == minimum_mem_required * FullPrecisionBits

WeightMemory(bits) ==
    SumSeq([i \in 1..NLayers |-> bits[i] * number_of_weights_inlayers[i]])

\* lines 242, 248, 261: a candidate passes STEP 1 when its accuracy is higher
\* than the STEP 1 floor
PassesStep1Mutant(acc) == acc >= step1_min_acc
PassesStep1(acc) == acc > step1_min_acc

\* line 305: the budget cannot hold one bit per weight
BudgetInfeasibleMutant == memory_budget_bits <= minimum_mem_required
BudgetInfeasible == memory_budget_bits < minimum_mem_required

\* line 312: math.floor(memory_budget_bits / minimum_mem_required)
UniformBitsForBudgetMutant ==
    (memory_budget_bits + minimum_mem_required - 1) \div minimum_mem_required
UniformBitsForBudget == memory_budget_bits \div minimum_mem_required

\* line 316: STEP 2 starts from a copy of the activation bits of STEP 1
Step2ActBitsMutant == Uniform(Len(step1_act_bits), UniformBitsForBudget)
Step2ActBits == step1_act_bits

\* line 339: the uniform candidate is accepted
Step2AcceptsMutant(acc) == acc > minimum_accuracy
Step2Accepts(acc) == acc >= minimum_accuracy

\* line 344: the condition of the raise loop
RaiseContinues(acc) == acc < minimum_accuracy

\* line 388: the memory of the lowered configuration fits the budget
FitsBudgetMutant(mem) == mem >= memory_budget_bits
FitsBudget(mem) == mem <= memory_budget_bits

\* lines 382, 495, 550: after a roll-back the accuracy is the one measured
\* before the failed probe
RolledBackAccuracyMutant(prev, failed) == failed
RolledBackAccuracy(prev, failed) == prev

\* lines 494, 546: after a failed probe the group or layer gets its bit back
RolledBackBitsMutant(b) == b
RolledBackBits(b) == b + 1

\* lines 480, 531: the floor of the next group or layer is one share lower
LoweredFloorMutant(floor, share) == floor + share
LoweredFloor(floor, share) == floor - share

\* lines 376, 488, 540: the previous accuracy is saved before the probe is
\* evaluated
SavedAccuracyMutant(before, after) == after
SavedAccuracy(before, after) == before

\* history: one more call of quantized_test in this phase (counted up to MaxCalls)
Called(phase) ==
    oracle_calls' = [oracle_calls EXCEPT ![phase] = IF @ < MaxCalls THEN @ + 1 ELSE @]


\* ------------------------------------------------------------------ inputs
\* (top_accuracy, accuracy_tolerance), the accuracy in ticks
AccuracyInputs == {<<80 * Ticks, 25>>}

\* the accuracies an oracle returns: below the floor, on it, between the two
\* floors, on the STEP 1 floor, above it
Levels(top, tol) ==
    LET min == top - (tol * top) \div 100
        min1 == top - (Step1Percent * (top - min)) \div 100
    IN  {min - 20 * Ticks, min, min + 10 * Ticks, min1, top}

WeightCounts == {[i \in Layers |-> i]}

\* (weight SQNR, activation SQNR) per layer
SqnrInputs ==
    {<<[i \in Layers |-> i], [i \in Layers |-> NLayers + 1 - i]>>,
     <<[i \in Layers |-> 1], [i \in Layers |-> 1]>>}

\* which layers are capsule layers with dynamic routing
RoutingInputs == {[i \in Layers |-> i = NLayers], [i \in Layers |-> TRUE]}

BudgetInputs(minreq) == {minreq - 1, minreq, 3 * minreq - 1, (StartBits + 1) * minreq}

StepOracles(lv, unit) ==
    {[kind |-> "step", thr |-> unit * b - off, lo |-> lh[1], hi |-> lh[2], tab |-> <<>>] :
        b \in 1..(StartBits + 1), off \in {0, 1},
        lh \in {x \in lv \X lv : x[1] < x[2]}}

TableOracles(lv) ==
    {[kind |-> "table", thr |-> 0, lo |-> 0, hi |-> 0, tab |-> t] :
        t \in [1..TabPeriod -> lv]}

Init ==
    /\ pc = "step1"
    /\ \E ai \in AccuracyInputs : top_accuracy = ai[1] /\ accuracy_tolerance = ai[2]
    /\ number_of_weights_inlayers \in WeightCounts
    /\ \E sq \in SqnrInputs : weight_sqnr = sq[1] /\ act_sqnr = sq[2]
    /\ dynamic_routing \in RoutingInputs
    /\ memory_budget_bits \in BudgetInputs(minimum_mem_required)
    /\ oracle \in StepOracles(Levels(top_accuracy, accuracy_tolerance),
                              2 * NLayers + NumDR)
                  \cup TableOracles(Levels(top_accuracy, accuracy_tolerance))
    /\ step1_bit_search = <<>> /\ step1_bit_search_sat = <<>> /\ step1_acc_list = <<>>
    /\ step1_acc = Unbound /\ step1_bits = Unbound
    /\ step1_weight_bits = <<>> /\ step1_act_bits = <<>> /\ step1_dr_bits = <<>>
    /\ step2_weight_bits = <<>> /\ step2_act_bits = <<>> /\ step2_dr_bits = <<>>
    /\ step2_acc = Unbound /\ prev_step2_acc = Unbound
    /\ model_memory_acc = Unbound /\ model_memory_weight_bits = <<>>
    /\ model_memory_act_bits = <<>> /\ model_memory_dr_bits = <<>>
    /\ branchB = FALSE /\ l2 = 0 /\ curr_mem = Unbound
    /\ step3A_min_acc = Unbound /\ step3a_accuracy_budget_per_step = Unbound
    /\ step3a_weight_bits = <<>> /\ step3a_act_bits = <<>> /\ step3a_dr_bits = <<>>
    /\ step3a_acc = Unbound /\ step3a_acc_prev = Unbound
    /\ start_bits = Unbound /\ curr_bits = Unbound /\ l3 = 0
    /\ step4a_weight_bits = <<>> /\ step4a_act_bits = <<>>
    /\ step4a_dr_bits = <<>> /\ dr_quantization_bits = <<>>
    /\ step4a_acc = Unbound /\ step4a_acc_prev = Unbound
    /\ step4a_min_acc = Unbound /\ step4a_accuracy_budget_per_step = Unbound /\ l4 = 0
    /\ retval = [kind |-> "none"]
    /\ oracle_calls = [p \in {"step1", "step2", "raise", "lower", "branch", "step3a", "step4a"} |-> 0]
    /\ raise_end_weight_bits = <<>>

\* ------------------------------------------------------------------ STEP 1
\* lines 238-244 and 267-269: the 32-bit evaluation
Step1First ==
    /\ pc = "step1"
    /\ LET acc == step1_quantization_test(StartBits)
       IN  /\ step1_acc_list' = <<acc>>
           /\ step1_acc' = acc
           /\ IF PassesStep1(acc)
              THEN /\ step1_bit_search_sat' = <<TRUE>>
                   /\ step1_bit_search' = <<StartBits, SecondBits>>
                   /\ step1_bits' = step1_bits
                   /\ pc' = "step1_search"
              ELSE /\ step1_bit_search_sat' = step1_bit_search_sat
                   /\ step1_bit_search' = <<StartBits>>
                   /\ step1_bits' = StartBits
                   /\ pc' = "step1_out"
    /\ Called("step1")
    /\ UNCHANGED <<inputs, s1out, s2vars, s3vars, s4vars, retval, raise_end_weight_bits>>

\* the index of the last passing candidate: lines 253-255 and 256-258
SelectedIndexMutant(sat) == Len(sat)
SelectedIndex(sat) == Len(sat) - 1 - FirstTrue(Reverse(sat)) + 1

\* lines 257-258: the accuracy reported by STEP 1 is the entry of step1_acc_list
\* at the index of the selected candidate
SelectedAccuracyMutant(accs, sat) == accs[Len(accs)]
SelectedAccuracy(accs, sat) == accs[SelectedIndex(sat)]

\* lines 262-266: the next candidate of the binary search
NextCandidate(search, passed) ==
    LET cur == search[Len(search)]
        half == Abs(cur - search[Len(search) - 1]) \div 2
    IN  IF passed THEN cur - half ELSE cur + half

\* lines 245-266: one iteration of the binary search
Step1Search ==
    /\ pc = "step1_search"
    /\ LET acc == step1_quantization_test(Last(step1_bit_search))
           sat == Append(step1_bit_search_sat, PassesStep1(acc))
           accs == Append(step1_acc_list, acc)
       IN  /\ step1_acc_list' = accs
           /\ step1_bit_search_sat' = sat
           /\ IF Abs(Last(step1_bit_search)
                     - step1_bit_search[Len(step1_bit_search) - 1]) = 1
              THEN /\ step1_bits' = step1_bit_search[SelectedIndex(sat)]
                   /\ step1_acc' = SelectedAccuracy(accs, sat)
                   /\ step1_bit_search' = step1_bit_search
                   /\ pc' = "step1_out"
              ELSE /\ step1_bit_search' =
                          Append(step1_bit_search,
                                 NextCandidate(step1_bit_search, PassesStep1(acc)))
                   /\ step1_acc' = acc
                   /\ step1_bits' = step1_bits
                   /\ pc' = "step1_search"
    /\ Called("step1")
    /\ UNCHANGED <<inputs, s1out, s2vars, s3vars, s4vars, retval, raise_end_weight_bits>>

\* lines 271-288: the three uniform lists of STEP 1
Step1Output ==
    /\ pc = "step1_out"
    /\ step1_act_bits' = Uniform(NLayers, step1_bits)
    /\ step1_weight_bits' = Uniform(NLayers, step1_bits)
    /\ step1_dr_bits' = Uniform(NumDR, step1_bits)
    /\ pc' = "step2"
    /\ UNCHANGED <<inputs, s1vars, s2vars, s3vars, s4vars, retval, hist>>

\* ------------------------------------------------------------------ STEP 2
\* lines 294-342: the memory check and the uniform candidate that fits it
Step2Entry ==
    /\ pc = "step2"
    /\ IF BudgetInfeasible
       THEN /\ retval' = [kind |-> "error", minimum_mem_required |-> minimum_mem_required]
            /\ pc' = "error"
            /\ UNCHANGED <<s2vars, hist>>
       ELSE LET bits == Uniform(Len(step1_weight_bits), UniformBitsForBudget)
                acc == Evaluate(oracle, bits, Step2ActBits, step1_dr_bits)
            IN  /\ step2_weight_bits' = bits
                /\ step2_act_bits' = Step2ActBits
                /\ step2_dr_bits' = step1_dr_bits
                /\ step2_acc' = acc
                /\ model_memory_acc' = acc
                /\ model_memory_weight_bits' = bits
                /\ model_memory_act_bits' = Step2ActBits
                /\ model_memory_dr_bits' = step1_dr_bits
                /\ branchB' = ~Step2Accepts(acc)
                /\ IF Step2Accepts(acc)
                   THEN pc' = "step3a" /\ UNCHANGED <<l2, raise_end_weight_bits>>
                   ELSE IF RaiseContinues(acc)
                        THEN pc' = "raise" /\ UNCHANGED <<l2, raise_end_weight_bits>>
                        ELSE pc' = "lower" /\ l2' = 1 /\ raise_end_weight_bits' = bits
                /\ Called("step2")
                /\ UNCHANGED <<prev_step2_acc, curr_mem, retval>>
    /\ UNCHANGED <<inputs, s1vars, s1out, s3vars, s4vars>>

\* line 345: a bit-width raised by one.  The loop has no upper limit in the
\* code.  From MaxWeightBits on the oracles of the model answer the same for b
\* and b + TabPeriod and never reach the floor (RaiseStoppedOnlyWhenEndless), so
\* the model keeps the bit-widths from MaxWeightBits on modulo TabPeriod.
RaisedBits(b) == IF b + 1 >= MaxWeightBits + TabPeriod THEN MaxWeightBits ELSE b + 1

\* lines 344-358: one iteration of the raise phase
Step2Raise ==
    /\ pc = "raise"
    /\ RaiseContinues(step2_acc)
    /\ LET bits == [i \in 1..Len(step2_weight_bits) |-> RaisedBits(step2_weight_bits[i])]
           acc == Evaluate(oracle, bits, step2_act_bits, step2_dr_bits)
       IN  /\ step2_weight_bits' = bits
           /\ step2_acc' = acc
           /\ IF RaiseContinues(acc)
              THEN /\ pc' = "raise"
                   /\ UNCHANGED <<l2, raise_end_weight_bits>>
              ELSE /\ pc' = "lower"
                   /\ l2' = 1
                   /\ raise_end_weight_bits' = bits
    /\ Called("raise")
    /\ UNCHANGED <<inputs, s1vars, s1out, step2_act_bits, step2_dr_bits, prev_step2_acc,
                   model_memory_acc, model_memory_weight_bits, model_memory_act_bits,
                   model_memory_dr_bits, branchB, curr_mem, s3vars, s4vars, retval>>

\* l[2] of the l2-th tuple of sqnr_tuples, as a layer of 1..NLayers
LowerLayer == SqnrTuples(weight_sqnr)[l2]

\* line 363: the condition of the inner while loop
LowerContinues == step2_acc > minimum_accuracy /\ step2_weight_bits[LowerLayer] > 1

\* lines 363-379: one decrement of the current layer and its evaluation
Step2LowerProbe ==
    /\ pc = "lower"
    /\ LowerContinues
    /\ LET bits == [step2_weight_bits EXCEPT ![LowerLayer] = @ - 1]
       IN  /\ step2_weight_bits' = bits
           /\ step2_acc' = Evaluate(oracle, bits, step2_act_bits, step2_dr_bits)
           /\ prev_step2_acc' = SavedAccuracy(step2_acc, step2_acc')
    /\ Called("lower")
    /\ UNCHANGED <<pc, inputs, s1vars, s1out, step2_act_bits, step2_dr_bits,
                   model_memory_acc, model_memory_weight_bits, model_memory_act_bits,
                   model_memory_dr_bits, branchB, l2, curr_mem, s3vars, s4vars, retval,
                   raise_end_weight_bits>>

\* lines 381-390: after the inner loop the layer is raised by one bit, the
\* previous accuracy is restored and the memory is compared with the budget.
\* Reading prev_step2_acc before any probe wrote it raises UnboundLocalError.
Step2LowerRestore ==
    /\ pc = "lower"
    /\ ~LowerContinues
    /\ LET bits == [step2_weight_bits EXCEPT ![LowerLayer] = @ + 1]
           mem == WeightMemory(bits)
       IN  /\ step2_weight_bits' = bits
           /\ IF prev_step2_acc = Unbound
              THEN /\ pc' = "exception"
                   /\ retval' = [kind |-> "exception", name |-> "prev_step2_acc"]
                   /\ UNCHANGED <<step2_acc, curr_mem, branchB, l2>>
              ELSE /\ step2_acc' = RolledBackAccuracy(prev_step2_acc, step2_acc)
                   /\ curr_mem' = mem
                   /\ retval' = retval
                   /\ IF FitsBudget(mem)
                      THEN /\ branchB' = FALSE
                           /\ l2' = l2
                           /\ pc' = "step3a"
                      ELSE /\ branchB' = branchB
                           /\ IF l2 < Len(SqnrTuples(weight_sqnr))
                              THEN l2' = l2 + 1 /\ pc' = "lower"
                              ELSE l2' = l2 /\ pc' = "branch"
    /\ UNCHANGED <<inputs, s1vars, s1out, step2_act_bits, step2_dr_bits, prev_step2_acc,
                   model_memory_acc, model_memory_weight_bits, model_memory_act_bits,
                   model_memory_dr_bits, s3vars, s4vars, hist>>

\* tot_memory_b / final_weight_memory_b, kept as the exact fraction
Reduction(bits) == <<tot_memory_b, WeightMemory(bits)>>

\* line 432: the first returned vector is the snapshot taken at lines 334-337
ReturnedMemoryBitsMutant == step2_weight_bits
ReturnedMemoryBits == model_memory_weight_bits

\* lines 393-432: both constraints could not be met; the model-memory and the
\* model-accuracy configurations are returned (model_accuracy_acc, the
\* re-evaluation of line 418, is printed only)
Step2BranchReturn ==
    /\ pc = "branch"
    /\ branchB
    /\ retval' = [kind |-> "pair",
                  model_memory_weight_bits |-> ReturnedMemoryBits,
                  model_memory_act_bits |-> model_memory_act_bits,
                  model_memory_dr_bits |-> model_memory_dr_bits,
                  model_memory_acc |-> model_memory_acc,
                  wmem_reduction_mem |-> Reduction(model_memory_weight_bits),
                  step2_weight_bits |-> step2_weight_bits,
                  step2_act_bits |-> step2_act_bits,
                  step2_dr_bits |-> step2_dr_bits,
                  step2_acc |-> step2_acc,
                  wmem_reduction_acc |-> Reduction(step2_weight_bits)]
    /\ pc' = "returned_pair"
    /\ Called("branch")
    /\ UNCHANGED <<inputs, s1vars, s1out, s2vars, s3vars, s4vars, raise_end_weight_bits>>

\* ----------------------------------------------------------------- STEP 3A
\* lines 444-477: the accuracy that may still be consumed, 55% of it for the
\* activations, in equal shares per group
Step3AInit ==
    /\ pc = "step3a"
    /\ ~branchB
    /\ LET branchA_accuracy_budget == step2_acc - minimum_accuracy
           step3a_accuracy_budget == (branchA_accuracy_budget * Step3aPercent) \div 100
       IN  step3a_accuracy_budget_per_step' =
               step3a_accuracy_budget \div Len(ActSqnrGroupedIndex(act_sqnr))
    /\ step3A_min_acc' = step2_acc
    /\ step3a_weight_bits' = step2_weight_bits
    /\ step3a_act_bits' = step2_act_bits
    /\ step3a_dr_bits' = step2_dr_bits
    /\ step3a_acc' = step2_acc
    /\ start_bits' = step2_act_bits[1]
    /\ l3' = 1
    /\ pc' = "step3a_group"
    /\ UNCHANGED <<inputs, s1vars, s1out, s2vars, step3a_acc_prev, curr_bits, s4vars,
                   retval, hist>>

\* act_sqnr_grouped_index[l]
Group3A == ActSqnrGroupedIndex(act_sqnr)[l3]

InGroup3A(i) == \E k \in 1..Len(Group3A) : Group3A[k] = i

\* lines 479-480: a group starts, its floor is one share lower
Step3AGroup ==
    /\ pc = "step3a_group"
    /\ curr_bits' = start_bits
    /\ step3A_min_acc' = LoweredFloor(step3A_min_acc, step3a_accuracy_budget_per_step)
    /\ pc' = "step3a_loop"
    /\ UNCHANGED <<inputs, s1vars, s1out, s2vars, step3a_accuracy_budget_per_step,
                   step3a_weight_bits, step3a_act_bits, step3a_dr_bits, step3a_acc,
                   step3a_acc_prev, start_bits, l3, s4vars, retval, hist>>

\* the for loop of line 478 moves on after a break
Step3ANextPc == IF l3 < Len(ActSqnrGroupedIndex(act_sqnr)) THEN "step3a_group" ELSE "step4a"

\* lines 482-491: the floor holds and curr_bits >= 3: every layer of the group
\* loses a bit and the model is evaluated
Step3AProbe ==
    /\ pc = "step3a_loop"
    /\ step3a_acc >= step3A_min_acc
    /\ ~(curr_bits < FineFloor)
    /\ LET bits == [i \in 1..Len(step3a_act_bits) |->
                       IF InGroup3A(i) THEN step3a_act_bits[i] - 1 ELSE step3a_act_bits[i]]
       IN  /\ step3a_act_bits' = bits
           /\ curr_bits' = bits[Group3A[Len(Group3A)]]
           /\ step3a_acc' = Evaluate(oracle, step3a_weight_bits, bits, step3a_dr_bits)
           /\ step3a_acc_prev' = SavedAccuracy(step3a_acc, step3a_acc')
    /\ Called("step3a")
    /\ UNCHANGED <<pc, inputs, s1vars, s1out, s2vars, step3A_min_acc,
                   step3a_accuracy_budget_per_step, step3a_weight_bits, step3a_dr_bits,
                   start_bits, l3, s4vars, retval, raise_end_weight_bits>>

\* lines 482-484: the floor holds and curr_bits < 3: the group is left as it is
Step3ABreak ==
    /\ pc = "step3a_loop"
    /\ step3a_acc >= step3A_min_acc
    /\ curr_bits < FineFloor
    /\ pc' = Step3ANextPc
    /\ l3' = l3 + 1
    /\ UNCHANGED <<inputs, s1vars, s1out, s2vars, step3A_min_acc,
                   step3a_accuracy_budget_per_step, step3a_weight_bits, step3a_act_bits,
                   step3a_dr_bits, step3a_acc, step3a_acc_prev, start_bits, curr_bits,
                   s4vars, retval, hist>>

\* lines 492-496: the floor is violated: the group gets its bit back and the
\* previous accuracy is restored
Step3ARollback ==
    /\ pc = "step3a_loop"
    /\ ~(step3a_acc >= step3A_min_acc)
    /\ step3a_act_bits' = [i \in 1..Len(step3a_act_bits) |->
                              IF InGroup3A(i) THEN RolledBackBits(step3a_act_bits[i])
                              ELSE step3a_act_bits[i]]
    /\ IF step3a_acc_prev = Unbound
       THEN /\ pc' = "exception"
            /\ retval' = [kind |-> "exception", name |-> "step3a_acc_prev"]
            /\ UNCHANGED <<step3a_acc, l3>>
       ELSE /\ step3a_acc' = RolledBackAccuracy(step3a_acc_prev, step3a_acc)
            /\ pc' = Step3ANextPc
            /\ l3' = l3 + 1
            /\ retval' = retval
    /\ UNCHANGED <<inputs, s1vars, s1out, s2vars, step3A_min_acc,
                   step3a_accuracy_budget_per_step, step3a_weight_bits, step3a_dr_bits,
                   step3a_acc_prev, start_bits, curr_bits, s4vars, hist>>

\* ----------------------------------------------------------------- STEP 4A
\* lines 511-529: the routing bits, all of the accuracy left, in equal shares
\* per routing layer
Step4AInit ==
    /\ pc = "step4a"
    /\ step4a_weight_bits' = step2_weight_bits
    /\ step4a_act_bits' = step3a_act_bits
    /\ step4a_dr_bits' = step3a_dr_bits
    /\ dr_quantization_bits' = step3a_dr_bits
    /\ step4a_acc' = step3a_acc
    /\ step4a_min_acc' = step3a_acc
    /\ IF Len(step3a_dr_bits) = 0
       THEN /\ pc' = "exception"
            /\ retval' = [kind |-> "exception", name |-> "ZeroDivisionError"]
            /\ UNCHANGED <<step4a_accuracy_budget_per_step, l4>>
       ELSE /\ step4a_accuracy_budget_per_step' =
                   (step3a_acc - minimum_accuracy) \div Len(step3a_dr_bits)
            /\ l4' = 1
            /\ pc' = "step4a_layer"
            /\ retval' = retval
    /\ UNCHANGED <<inputs, s1vars, s1out, s2vars, s3vars, step4a_acc_prev, hist>>

\* line 531: a routing layer starts, its floor is one share lower
Step4ALayer ==
    /\ pc = "step4a_layer"
    /\ step4a_min_acc' = LoweredFloor(step4a_min_acc, step4a_accuracy_budget_per_step)
    /\ pc' = "step4a_loop"
    /\ UNCHANGED <<inputs, s1vars, s1out, s2vars, s3vars, step4a_weight_bits,
                   step4a_act_bits, step4a_dr_bits, dr_quantization_bits, step4a_acc,
                   step4a_acc_prev, step4a_accuracy_budget_per_step, l4, retval, hist>>

Step4ANextPc == IF l4 < Len(dr_quantization_bits) THEN "step4a_layer" ELSE "final"

\* lines 533-543: the floor holds and the layer has >= 3 bits: it loses a bit
\* and the model is evaluated
Step4AProbe ==
    /\ pc = "step4a_loop"
    /\ step4a_acc >= step4a_min_acc
    /\ ~(dr_quantization_bits[l4] < FineFloor)
    /\ LET bits == [dr_quantization_bits EXCEPT ![l4] = @ - 1]
       IN  /\ dr_quantization_bits' = bits
           /\ step4a_dr_bits' = bits
           /\ step4a_acc' = Evaluate(oracle, step3a_weight_bits, step4a_act_bits, bits)
           /\ step4a_acc_prev' = SavedAccuracy(step4a_acc, step4a_acc')
    /\ Called("step4a")
    /\ UNCHANGED <<pc, inputs, s1vars, s1out, s2vars, s3vars, step4a_weight_bits,
                   step4a_act_bits, step4a_min_acc, step4a_accuracy_budget_per_step, l4,
                   retval, raise_end_weight_bits>>

\* lines 533-535: the floor holds and the layer has < 3 bits
Step4ABreak ==
    /\ pc = "step4a_loop"
    /\ step4a_acc >= step4a_min_acc
    /\ dr_quantization_bits[l4] < FineFloor
    /\ pc' = Step4ANextPc
    /\ l4' = l4 + 1
    /\ UNCHANGED <<inputs, s1vars, s1out, s2vars, s3vars, step4a_weight_bits,
                   step4a_act_bits, step4a_dr_bits, dr_quantization_bits, step4a_acc,
                   step4a_acc_prev, step4a_min_acc, step4a_accuracy_budget_per_step,
                   retval, hist>>

\* lines 545-551: the floor is violated: the layer gets its bit back and the
\* previous accuracy is restored
Step4ARollback ==
    /\ pc = "step4a_loop"
    /\ ~(step4a_acc >= step4a_min_acc)
    /\ dr_quantization_bits' = [dr_quantization_bits EXCEPT ![l4] = RolledBackBits(@)]
    /\ step4a_dr_bits' = dr_quantization_bits'
    /\ IF step4a_acc_prev = Unbound
       THEN /\ pc' = "exception"
            /\ retval' = [kind |-> "exception", name |-> "step4a_acc_prev"]
            /\ UNCHANGED <<step4a_acc, l4>>
       ELSE /\ step4a_acc' = RolledBackAccuracy(step4a_acc_prev, step4a_acc)
            /\ pc' = Step4ANextPc
            /\ l4' = l4 + 1
            /\ retval' = retval
    /\ UNCHANGED <<inputs, s1vars, s1out, s2vars, s3vars, step4a_weight_bits,
                   step4a_act_bits, step4a_acc_prev, step4a_min_acc,
                   step4a_accuracy_budget_per_step, hist>>

\* lines 557-579: the model-satisfied configuration is returned
FinalReturn ==
    /\ pc = "final"
    /\ retval' = [kind |-> "single",
                  step4a_weight_bits |-> step4a_weight_bits,
                  step4a_act_bits |-> step4a_act_bits,
                  step4a_dr_bits |-> step4a_dr_bits,
                  step4a_acc |-> step4a_acc,
                  wmem_reduction |-> Reduction(step4a_weight_bits)]
    /\ pc' = "returned"
    /\ UNCHANGED <<inputs, s1vars, s1out, s2vars, s3vars, s4vars, hist>>

Next ==
    \/ Step1First
    \/ Step1Search
    \/ Step1Output
    \/ Step2Entry
    \/ Step2Raise
    \/ Step2LowerProbe
    \/ Step2LowerRestore
    \/ Step2BranchReturn
    \/ Step3AInit
    \/ Step3AGroup
    \/ Step3AProbe
    \/ Step3ABreak
    \/ Step3ARollback
    \/ Step4AInit
    \/ Step4ALayer
    \/ Step4AProbe
    \/ Step4ABreak
    \/ Step4ARollback
    \/ FinalReturn

Spec == Init /\ [][Next]_vars

\* the runs with a periodic oracle
TableInit == Init /\ oracle.kind = "table"

\* the scheduling of a sequential function: a step that can be taken is taken
FairSpec == TableInit /\ [][Next]_vars /\ WF_vars(Next)

\* ------------------------------------------------------------------ claims
\* C1: whenever the single (satisfied) result is returned, after STEP 4A, the
\* returned accuracy is at least minimum_accuracy.
C1_SingleResultMeetsFloor ==
    pc = "returned" => retval.step4a_acc >= minimum_accuracy

\* a single result whose accuracy was consumed by STEP 3A and STEP 4A probes
C1_Witness ==
    /\ pc = "returned"
    /\ oracle_calls["step3a"] > 0
    /\ oracle_calls["step4a"] > 0
    /\ retval.step4a_acc < model_memory_acc

\* the oracle is non-decreasing in the uniform bit-width
MonotoneUniform ==
    \A b \in 1..(StartBits - 1) :
        step1_quantization_test(b) <= step1_quantization_test(b + 1)

\* C2 as stated: for a non-decreasing oracle with some bit-width in 1..32 whose
\* accuracy is >= the STEP 1 floor, STEP 1 returns the smallest bit-width whose
\* accuracy is >= the floor, as a linear scan over 1..32 does.
C2_MinimalAtLeastFloor ==
    (/\ pc = "step1_out"
     /\ MonotoneUniform
     /\ \E b \in 1..StartBits : step1_quantization_test(b) >= step1_min_acc)
    => /\ step1_quantization_test(step1_bits) >= step1_min_acc
       /\ \A b \in 1..(step1_bits - 1) : ~(step1_quantization_test(b) >= step1_min_acc)

\* C2 amended: for a non-decreasing oracle with some bit-width in 1..32 whose
\* accuracy is strictly above the STEP 1 floor, STEP 1 returns the smallest
\* bit-width whose accuracy is strictly above the floor.
C2_MinimalAboveFloor ==
    (/\ pc = "step1_out"
     /\ MonotoneUniform
     /\ \E b \in 1..StartBits : step1_quantization_test(b) > step1_min_acc)
    => /\ step1_quantization_test(step1_bits) > step1_min_acc
       /\ \A b \in 1..(step1_bits - 1) : ~(step1_quantization_test(b) > step1_min_acc)

\* the search ended strictly inside 1..32, one bit above a bit-width whose
\* accuracy is exactly the floor
C2_Witness ==
    /\ pc = "step1_out"
    /\ MonotoneUniform
    /\ step1_bits > 1
    /\ step1_bits < StartBits
    /\ Len(step1_bit_search) > 2
    /\ step1_quantization_test(step1_bits) > step1_min_acc
    /\ step1_quantization_test(step1_bits - 1) = step1_min_acc

\* the states of STEP 3A, STEP 4A and the single return
AfterStep2 ==
    pc \in {"step3a", "step3a_group", "step3a_loop", "step4a", "step4a_layer",
            "step4a_loop", "final", "returned"}

\* C3: whenever the single result is returned, the weight memory of the
\* returned configuration is within the budget, by the uniform candidate or by
\* the early stop of the lower phase, and STEP 3A and 4A leave it as it was.
C3_SingleResultFitsBudget ==
    /\ AfterStep2 => WeightMemory(step2_weight_bits) <= memory_budget_bits
    /\ pc = "returned" =>
          /\ retval.step4a_weight_bits = step2_weight_bits
          /\ WeightMemory(retval.step4a_weight_bits) <= memory_budget_bits

\* a single result reached by the early stop of the lower phase
C3_Witness ==
    /\ pc = "returned"
    /\ oracle_calls["lower"] > 0
    /\ retval.step4a_weight_bits /= model_memory_weight_bits

\* every entry of a bit vector is between 1 and 32
Within1And32(v) == \A i \in 1..Len(v) : v[i] >= 1 /\ v[i] <= StartBits

\* C4: for every budget >= minimum_mem_required, every entry of the weight,
\* activation and routing vectors of STEP 1 and STEP 2 (the raise-phase probes
\* and both configurations of the pair included) is >= 1 and <= 32.
C4_BitsWithin1And32 ==
    memory_budget_bits >= minimum_mem_required =>
        /\ Within1And32(step1_weight_bits)
        /\ Within1And32(step1_act_bits)
        /\ Within1And32(step1_dr_bits)
        /\ Within1And32(step2_weight_bits)
        /\ Within1And32(step2_act_bits)
        /\ Within1And32(step2_dr_bits)
        /\ Within1And32(model_memory_weight_bits)
        /\ Within1And32(model_memory_act_bits)
        /\ Within1And32(model_memory_dr_bits)

\* every entry of a bit vector is at least 3
AtLeastFineFloor(v) == \A i \in 1..Len(v) : v[i] >= FineFloor

\* C5: when the activation and routing bits entering STEP 3A and STEP 4A are
\* >= 3, every activation and routing entry of the final configuration is >= 3.
C5_FineFloorKept ==
    (/\ pc = "returned"
     /\ AtLeastFineFloor(step2_act_bits)
     /\ AtLeastFineFloor(step2_dr_bits))
    => /\ AtLeastFineFloor(retval.step4a_act_bits)
       /\ AtLeastFineFloor(retval.step4a_dr_bits)

\* C6: two configurations are returned exactly when the uniform candidate
\* missed the floor and the lower phase went through every layer without
\* fitting the budget; then STEP 3A and 4A did not run, the memory-optimal one
\* fits the budget below the floor and the accuracy-optimal one meets the
\* floor above the budget.  Every other returning run returns one.
C6_PairOnlyOnConflict ==
    /\ pc = "returned_pair" =>
          /\ retval.kind = "pair"
          /\ model_memory_acc < minimum_accuracy
          /\ l2 = NLayers
          /\ curr_mem > memory_budget_bits
          /\ oracle_calls["step3a"] = 0
          /\ oracle_calls["step4a"] = 0
          /\ step3a_act_bits = <<>>
          /\ WeightMemory(retval.model_memory_weight_bits) <= memory_budget_bits
          /\ retval.model_memory_acc < minimum_accuracy
          /\ retval.step2_acc >= minimum_accuracy
          /\ WeightMemory(retval.step2_weight_bits) > memory_budget_bits
    /\ pc = "returned" =>
          /\ retval.kind = "single"
          /\ \/ model_memory_acc >= minimum_accuracy
             \/ curr_mem /= Unbound /\ curr_mem <= memory_budget_bits
    /\ retval.kind \in {"pair", "single"} => pc \in {"returned_pair", "returned"}

\* a pair returned after the lower phase lowered some layer
C6_Witness ==
    /\ pc = "returned_pair"
    /\ oracle_calls["lower"] > NLayers
    /\ retval.step2_weight_bits /= raise_end_weight_bits

RaiseStoppedOnlyWhenEndless ==
    (pc = "raise" /\ \E i \in 1..NLayers : step2_weight_bits[i] >= MaxWeightBits) =>
        /\ oracle.kind = "step" =>
               Score(Uniform(NLayers, MaxWeightBits), step2_act_bits, step2_dr_bits)
                   >= oracle.thr
        /\ \A b \in MaxWeightBits..(MaxWeightBits + TabPeriod) :
               /\ RaiseContinues(Evaluate(oracle, Uniform(NLayers, b),
                                          step2_act_bits, step2_dr_bits))
               /\ Evaluate(oracle, Uniform(NLayers, b), step2_act_bits, step2_dr_bits)
                  = Evaluate(oracle, Uniform(NLayers, b + TabPeriod),
                             step2_act_bits, step2_dr_bits)

\* C8: the call ends after finitely many oracle calls (an uncaught exception
\* counted as an end too); in particular the raise phase reaches the floor and
\* stops.
C8_Terminates == <>(pc \in {"returned", "returned_pair", "error", "exception"})

\* C9: a budget below minimum_mem_required gives the error at STEP 2 entry, no
\* configuration and no oracle call of STEP 2, 3A or 4A; a budget of at least
\* minimum_mem_required never gives that error.
C9_ErrorIffBudgetBelowMinimum ==
    /\ memory_budget_bits < minimum_mem_required =>
          /\ pc \in {"step1", "step1_search", "step1_out", "step2", "error"}
          /\ retval.kind \in {"none", "error"}
          /\ step2_weight_bits = <<>>
          /\ \A p \in {"step2", "raise", "lower", "branch", "step3a", "step4a"} :
                 oracle_calls[p] = 0
          /\ pc \notin {"step1", "step1_search", "step1_out", "step2"} =>
                 pc = "error" /\ retval.kind = "error"
    /\ memory_budget_bits >= minimum_mem_required =>
          pc /= "error" /\ retval.kind /= "error"

\* the error was returned
C9_Witness ==
    /\ pc = "error"
    /\ retval.kind = "error"
    /\ memory_budget_bits = minimum_mem_required - 1

\* STEP 2 has evaluated its uniform candidate
Step2Evaluated == model_memory_weight_bits /= <<>>

\* C10: STEP 2 evaluates the uniform b2 = floor(budget / minimum_mem_required),
\* 1 when the two are equal; if that accuracy is >= minimum_accuracy there is
\* no raise or lower evaluation and STEP 3A starts from uniform b2; otherwise
\* the raise phase starts from b2 and its first probe is uniform b2 + 1.
C10_UniformCandidateFirst ==
    LET b2 == memory_budget_bits \div minimum_mem_required
    IN  Step2Evaluated =>
          /\ oracle_calls["step2"] = 1
          /\ model_memory_weight_bits = Uniform(NLayers, b2)
          /\ model_memory_acc =
                 Evaluate(oracle, Uniform(NLayers, b2), step1_act_bits, step1_dr_bits)
          /\ memory_budget_bits = minimum_mem_required => b2 = 1
          /\ model_memory_acc >= minimum_accuracy =>
                /\ oracle_calls["raise"] = 0
                /\ oracle_calls["lower"] = 0
                /\ step2_weight_bits = Uniform(NLayers, b2)
                /\ step3a_weight_bits \in {<<>>, Uniform(NLayers, b2)}
          /\ model_memory_acc < minimum_accuracy =>
                /\ oracle_calls["raise"] = 0 =>
                      pc = "raise" /\ step2_weight_bits = Uniform(NLayers, b2)
                /\ oracle_calls["raise"] = 1 /\ oracle_calls["lower"] = 0
                      /\ pc \in {"raise", "lower"} =>
                      step2_weight_bits = Uniform(NLayers, b2 + 1)

\* the budget is one bit per weight, the 1-bit candidate missed the floor and
\* the raise phase has probed 2 bits
C10_Witness ==
    /\ memory_budget_bits = minimum_mem_required
    /\ model_memory_weight_bits = Uniform(NLayers, 1)
    /\ model_memory_acc < minimum_accuracy
    /\ oracle_calls["raise"] = 1
    /\ step2_weight_bits = Uniform(NLayers, 2)

\* the trials of STEP 1 whose recorded accuracy is higher than the STEP 1 floor
PassedTrials == {k \in 1..Len(step1_acc_list) : step1_acc_list[k] > step1_min_acc}

\* the trials of STEP 1 are the evaluations of the candidates, in trial order
TrialsRecorded ==
    /\ Len(step1_bit_search) = Len(step1_acc_list)
    /\ \A k \in 1..Len(step1_acc_list) :
           step1_acc_list[k] = step1_quantization_test(step1_bit_search[k])

\* C11: for every oracle, monotone or not: when the 32-bit evaluation passes
\* the STEP 1 floor, step1_bits is a candidate that was tried and passed, no
\* tried and passed candidate is lower, and it is the most recent passing one in
\* trial order; when the 32-bit evaluation fails, step1_bits is 32 and nothing
\* else was evaluated.
C11_LowestPassingTrial ==
    pc = "step1_out" =>
        /\ TrialsRecorded
        /\ IF 1 \in PassedTrials
           THEN /\ \E k \in PassedTrials : step1_bit_search[k] = step1_bits
                /\ \A k \in PassedTrials : step1_bits <= step1_bit_search[k]
                /\ \A k \in PassedTrials :
                       (\A j \in PassedTrials : j <= k) => step1_bits = step1_bit_search[k]
           ELSE /\ step1_bits = StartBits
                /\ step1_bit_search = <<StartBits>>
                /\ Len(step1_acc_list) = 1
                /\ oracle_calls["step1"] = 1

\* a non-monotone oracle: the search ran, its last trial failed, and a
\* bit-width that was never tried, below the selected one, would have passed
C11_Witness ==
    /\ pc = "step1_out"
    /\ ~MonotoneUniform
    /\ Len(step1_acc_list) > 2
    /\ Len(step1_acc_list) \notin PassedTrials
    /\ \E b \in 1..(step1_bits - 1) :
           /\ step1_quantization_test(b) > step1_min_acc
           /\ \A k \in 1..Len(step1_bit_search) : step1_bit_search[k] /= b

\* STEP 1 has produced its output
Step1Done == pc \notin {"step1", "step1_search"}

LowerLayerProbed == step2_weight_bits[LowerLayer] < raise_end_weight_bits[LowerLayer]

\* C13: in the lower phase a probed layer is decremented and evaluated again as
\* long as the accuracy is >= minimum_accuracy and its bit-width is > 1, and it
\* is raised back by one only when its last probe was below minimum_accuracy:
\* the bit-width it is left with is the lowest probed one whose accuracy was
\* >= minimum_accuracy, 1 bit when every probe down to 1 bit passed.
C13_LowestPassingProbeKept ==
    [][(pc = "lower" /\ LowerLayerProbed) =>
          /\ (step2_acc >= minimum_accuracy /\ step2_weight_bits[LowerLayer] > 1) =>
                 step2_weight_bits' =
                     [step2_weight_bits EXCEPT ![LowerLayer] = @ - 1]
          /\ ~(step2_acc >= minimum_accuracy /\ step2_weight_bits[LowerLayer] > 1) =>
                 step2_weight_bits'[LowerLayer] =
                     IF step2_acc >= minimum_accuracy
                     THEN step2_weight_bits[LowerLayer]
                     ELSE step2_weight_bits[LowerLayer] + 1]_vars

\* STEP 3A has finished at least one group, STEP 4A at least one routing layer
Group3ADone == (pc = "step3a_group" /\ l3 > 1) \/ pc = "step4a"
Layer4ADone == (pc = "step4a_layer" /\ l4 > 1) \/ pc = "final"

\* C14: whenever STEP 3A finishes a group and STEP 4A finishes a routing layer,
\* the bits left applied are a configuration whose measured accuracy is at least
\* the floor of that group or layer, the starting accuracy minus one equal share
\* of the stage's slack per group started; no failed probe is left applied, also
\* when the loop ends on the bit floor.  So the STEP 3A output accuracy is at
\* least the STEP 2 accuracy minus 55% of its distance to minimum_accuracy.
C14_FinishedGroupMeetsFloor ==
    /\ Group3ADone =>
          /\ step3A_min_acc = step2_acc - (l3 - 1) * step3a_accuracy_budget_per_step
          /\ step3a_acc >= step3A_min_acc
          /\ step3a_acc =
                 Evaluate(oracle, step3a_weight_bits, step3a_act_bits, step3a_dr_bits)
    /\ Layer4ADone =>
          /\ step4a_min_acc = step3a_acc - (l4 - 1) * step4a_accuracy_budget_per_step
          /\ step4a_acc >= step4a_min_acc
          /\ step4a_acc =
                 Evaluate(oracle, step4a_weight_bits, step4a_act_bits, step4a_dr_bits)
    /\ pc \in {"step4a", "step4a_layer", "step4a_loop", "final", "returned"} =>
          100 * step3a_acc >=
              100 * step2_acc - Step3aPercent * (step2_acc - minimum_accuracy)

\* STEP 3A is over: one group was rolled back after a failed probe, another
\* one ended on the bit floor below 3 bits
C14_Witness ==
    /\ pc = "step4a"
    /\ step3a_acc < step2_acc
    /\ \E i \in 1..NLayers : step3a_act_bits[i] < FineFloor
    /\ \E i \in 1..NLayers :
           /\ step3a_act_bits[i] >= FineFloor
           /\ step3a_act_bits[i] < step2_act_bits[i]
    /\ oracle_calls["step3a"] > NLayers + 1

\* STEP 3A and STEP 4A have made their copies
Step3AStarted ==
    pc \in {"step3a_group", "step3a_loop", "step4a", "step4a_layer", "step4a_loop",
            "final", "returned"}
Step4AStarted == pc \in {"step4a_layer", "step4a_loop", "final", "returned"}

\* C15: each stage changes its own vector only: STEP 2 keeps the activation and
\* routing bits of STEP 1, STEP 3A keeps the weight and routing bits STEP 2
\* accepted, STEP 4A keeps the weight bits and the activation bits of STEP 3A,
\* and the weight bits returned are the ones accepted at the end of STEP 2.
C15_StagesKeepOtherVectors ==
    /\ Step2Evaluated =>
          /\ step2_act_bits = step1_act_bits
          /\ step2_dr_bits = step1_dr_bits
          /\ model_memory_act_bits = step1_act_bits
          /\ model_memory_dr_bits = step1_dr_bits
    /\ Step3AStarted =>
          /\ step3a_weight_bits = step2_weight_bits
          /\ step3a_dr_bits = step2_dr_bits
    /\ Step4AStarted =>
          /\ step4a_weight_bits = step3a_weight_bits
          /\ step4a_act_bits = step3a_act_bits
    /\ pc = "returned" =>
          /\ retval.step4a_weight_bits = step2_weight_bits
          /\ retval.step4a_act_bits = step3a_act_bits
          /\ retval.step4a_dr_bits = step4a_dr_bits

\* a single result in which each of STEP 2, STEP 3A and STEP 4A changed its
\* vector
C15_Witness ==
    /\ pc = "returned"
    /\ step2_weight_bits /= step1_weight_bits
    /\ step3a_act_bits /= step2_act_bits
    /\ step4a_dr_bits /= step3a_dr_bits

\* C16: in the lower phase the roll-back of a layer (one bit more, the previous
\* accuracy restored) runs only after a probe of that layer was evaluated: no
\* layer leaves the lower phase above its bit-width at the end of the raise
\* phase and the restored accuracy was measured for that layer, also when the
\* raise phase ends with an accuracy equal to minimum_accuracy.
C16_RollbackOnlyAfterProbe ==
    raise_end_weight_bits /= <<>> =>
        /\ (pc = "lower" /\ ~LowerContinues) =>
               LowerLayerProbed /\ prev_step2_acc /= Unbound
        /\ \A i \in 1..NLayers : step2_weight_bits[i] <= raise_end_weight_bits[i]
        /\ ~(pc = "exception" /\ retval.name = "prev_step2_acc")

\* v is element-wise at most w
NowhereAbove(v, w) == Len(v) = Len(w) /\ \A i \in 1..Len(v) : v[i] <= w[i]

\* the group of STEP 3A, the layer of STEP 4A, that the loop is in has not
\* been probed yet
Group3AUnprobed ==
    pc = "step3a_loop" /\ \A i \in 1..NLayers : InGroup3A(i) => step3a_act_bits[i] = step2_act_bits[i]
Layer4AUnprobed ==
    pc = "step4a_loop" /\ dr_quantization_bits[l4] = step3a_dr_bits[l4]

\* C17: STEP 3A and STEP 4A lower bit-widths only: the activation bits are
\* nowhere above the ones entering STEP 3A and the routing bits nowhere above
\* the ones entering STEP 4A, up to the returned result; the roll-back is never
\* the first step of a group or layer, because the accuracy at its start is at
\* least its floor.
C17_FineStagesOnlyLower ==
    /\ Step3AStarted => NowhereAbove(step3a_act_bits, step2_act_bits)
    /\ Step4AStarted =>
          /\ NowhereAbove(step4a_dr_bits, step3a_dr_bits)
          /\ dr_quantization_bits = step4a_dr_bits
    /\ pc = "returned" =>
          /\ NowhereAbove(retval.step4a_act_bits, step2_act_bits)
          /\ NowhereAbove(retval.step4a_dr_bits, step3a_dr_bits)
    /\ Group3AUnprobed => step3a_acc >= step3A_min_acc
    /\ Layer4AUnprobed => step4a_acc >= step4a_min_acc
    /\ step3a_accuracy_budget_per_step /= Unbound => step3a_accuracy_budget_per_step >= 0
    /\ step4a_accuracy_budget_per_step /= Unbound => step4a_accuracy_budget_per_step >= 0
    /\ pc = "exception" => retval.name \notin {"step3a_acc_prev", "step4a_acc_prev"}

\* a single result in which STEP 3A lowered some bit-width and both stages
\* rolled a failed probe back (more probes than bits taken away)
C17_Witness ==
    /\ pc = "returned"
    /\ oracle_calls["step3a"] < MaxCalls
    /\ oracle_calls["step4a"] < MaxCalls
    /\ SumSeq(retval.step4a_act_bits) < SumSeq(step2_act_bits)
    /\ oracle_calls["step3a"] > SumSeq(step2_act_bits) - SumSeq(retval.step4a_act_bits)
    /\ oracle_calls["step4a"] > SumSeq(step3a_dr_bits) - SumSeq(retval.step4a_dr_bits)

\* C18: with a deterministic oracle every accuracy that is returned is the
\* oracle's value at the bit vectors returned with it: the single result after
\* all the roll-backs of the lower phase, STEP 3A and STEP 4A, and both
\* configurations of the pair.
C18_ReturnedAccuracyIsMeasured ==
    /\ pc = "returned" =>
          retval.step4a_acc =
              Evaluate(oracle, retval.step4a_weight_bits, retval.step4a_act_bits,
                       retval.step4a_dr_bits)
    /\ pc = "returned_pair" =>
          /\ retval.model_memory_acc =
                 Evaluate(oracle, retval.model_memory_weight_bits,
                          retval.model_memory_act_bits, retval.model_memory_dr_bits)
          /\ retval.step2_acc =
                 Evaluate(oracle, retval.step2_weight_bits, retval.step2_act_bits,
                          retval.step2_dr_bits)

\* a single result after a roll-back in each of the lower phase, STEP 3A and
\* STEP 4A (more probes than bits taken away)
C18_Witness ==
    /\ pc = "returned"
    /\ oracle_calls["lower"] > 0
    /\ oracle_calls["step3a"] > 0
    /\ oracle_calls["step4a"] > 0
    /\ oracle_calls["step3a"] < MaxCalls
    /\ oracle_calls["step4a"] < MaxCalls
    /\ oracle_calls["step3a"] > SumSeq(step2_act_bits) - SumSeq(retval.step4a_act_bits)
    /\ oracle_calls["step4a"] > SumSeq(step3a_dr_bits) - SumSeq(retval.step4a_dr_bits)

====
